---- MODULE Spec2Model ----
(***************************************************************************)
(* Model of src/src/index.js: a command-line utility over one "students"   *)
(* table.  One process invocation runs runCLI once: it dispatches one      *)
(* command, issues at most one query through the pool, prints one message  *)
(* and ends the pool.  The table and its id sequence persist across        *)
(* invocations.                                                            *)
(*                                                                         *)
(* Strings of argv are TLA+ strings, except the id argument of update and  *)
(* delete, which is a sequence of one-character strings so that Number()   *)
(* can be computed from its characters.                                    *)
(***************************************************************************)
EXTENDS Integers, Sequences, FiniteSets, TLC

VARIABLES
    students,    \* the rows of table students (persisted)
    seq,         \* last value handed out by the student_id sequence (persisted)
    log,         \* history: the student_ids given to inserted rows, in order
    deletedIds,  \* history: the student_ids of rows removed by DELETE
    pc,          \* position of the process in runCLI
    cmd,         \* process.argv[2]
    args,        \* process.argv.slice(3)
    inflight,    \* the query handed to pool.query and not yet answered
    res,         \* the result of the last answered query
    ret,         \* what the data-access function returned to runCLI
    err,         \* the error caught by runCLI's catch
    out,         \* what this invocation printed so far (console.log/table/error)
    ends,        \* number of pool.end() calls of this invocation
    queries,     \* history: number of queries this invocation issued
    before       \* history: the rows of the table when this invocation started

vars == <<students, seq, log, deletedIds, pc, cmd, args, inflight, res, ret,
          err, out, ends, queries, before>>

-----------------------------------------------------------------------------
(* Bounds and input alphabets *)

\* cap on the student_id sequence: no insert is started once it is reached
MaxSeq == 3

Firsts == {"Ana"}
Lasts == {"Lee"}
Emails == {"a@x", "b@x", "c@x"}
\* well-formed (two spellings of one day), out-of-range and malformed dates
DateStrs == {"2024-01-15", "2024-1-15", "2024-02-30", "soon"}

\* JavaScript's undefined, and SQL NULL (pg sends undefined as NULL)
Undefined == "undefined"
Null == "NULL"

DigitChars == {"0", "1", "2", "3", "4", "5", "6", "7", "8", "9"}
\* the characters id arguments are written in: digits, blank, point, signs
\* and one letter.  "e", "x", "I" and the like are outside this alphabet.
IdChars == DigitChars \cup {" ", ".", "-", "+", "a"}

IdStrs ==
    { <<>>,
      <<"1">>, <<"2">>, <<"3">>, <<"4">>,
      <<"0", "2">>, <<" ", "1">>, <<"+", "2">>, <<"-", "1">>,
      <<"1", ".", "0">>, <<"1", ".", "5">>, <<"2", ".">>,
      <<" ">>, <<"a">>, <<"2", "a">>, <<"1", " ", "2">>, <<".">>, <<"-">>,
      <<"9", "9", "9", "9", "9", "9", "9", "9", "9", "9", "9">> }

-----------------------------------------------------------------------------
(* JavaScript Number(string) on the alphabet IdChars *)

Int4Max == 2147483647

RECURSIVE TrimLeft(_)
TrimLeft(s) == IF s # <<>> /\ Head(s) = " " THEN TrimLeft(Tail(s)) ELSE s

RECURSIVE TrimRight(_)
TrimRight(s) ==
    IF s # <<>> /\ s[Len(s)] = " " THEN TrimRight(SubSeq(s, 1, Len(s) - 1)) ELSE s

Trim(s) == TrimRight(TrimLeft(s))

AllDigits(s) == \A i \in 1..Len(s) : s[i] \in DigitChars

DigitVal(c) ==
    CASE c = "0" -> 0 [] c = "1" -> 1 [] c = "2" -> 2 [] c = "3" -> 3
      [] c = "4" -> 4 [] c = "5" -> 5 [] c = "6" -> 6 [] c = "7" -> 7
      [] c = "8" -> 8 [] c = "9" -> 9

\* value of a digit string, or -1 once it exceeds Int4Max
RECURSIVE DecVal(_, _)
DecVal(s, acc) ==
    IF s = <<>> THEN acc
    ELSE IF acc > (Int4Max - DigitVal(Head(s))) \div 10 THEN -1
    ELSE DecVal(Tail(s), acc * 10 + DigitVal(Head(s)))

PointAt(s) ==
    IF \E i \in 1..Len(s) : s[i] = "."
    THEN CHOOSE i \in 1..Len(s) : s[i] = "." /\ \A j \in 1..(i - 1) : s[j] # "."
    ELSE 0

NaN == [k |-> "nan", v |-> 0]

\* StrUnsignedDecimalLiteral without exponent: digits [. [digits]] | . digits
UnsignedToNumber(s, neg) ==
    LET p == PointAt(s)
        ip == IF p = 0 THEN s ELSE SubSeq(s, 1, p - 1)
        fp == IF p = 0 THEN <<>> ELSE SubSeq(s, p + 1, Len(s))
        iv == DecVal(ip, 0)
    IN  IF ~(AllDigits(ip) /\ AllDigits(fp) /\ Len(ip) + Len(fp) > 0) THEN NaN
        ELSE IF \E i \in 1..Len(fp) : fp[i] # "0" THEN [k |-> "frac", v |-> 0]
        ELSE IF iv = -1 THEN [k |-> "big", v |-> 0]
        ELSE [k |-> "int", v |-> IF neg THEN 0 - iv ELSE iv]

\* Number(idStr): blank-trimmed; the empty string is 0
StringToNumber(s) ==
    LET t == Trim(s)
    IN  IF t = <<>> THEN [k |-> "int", v |-> 0]
        ELSE IF Head(t) = "-" THEN UnsignedToNumber(Tail(t), TRUE)
        ELSE IF Head(t) = "+" THEN UnsignedToNumber(Tail(t), FALSE)
        ELSE UnsignedToNumber(t, FALSE)

-----------------------------------------------------------------------------
(* The store: table students (student_id SERIAL PRIMARY KEY, first_name,  *)
(* last_name, email UNIQUE, enrollment_date DATE) behind pool.query        *)

Row(id, first, last, email, date) ==
    [student_id |-> id, first_name |-> first, last_name |-> last,
     email |-> email, enrollment_date |-> date]

NoError == [code |-> "", message |-> ""]
\* the message the store gives with each error code
StoreMessage(c) ==
    CASE c = "22P02" -> "invalid input syntax for type integer"
      [] c = "22003" -> "value is out of range for type integer"
      [] c = "22007" -> "invalid input syntax for type date"
      [] c = "22008" -> "date/time field value out of range"
      [] c = "23502" -> "null value violates not-null constraint"
      [] c = "23505" -> "duplicate key value violates unique constraint"
StoreError(c) == [code |-> c, message |-> StoreMessage(c)]

\* what pool.query resolves with (ok) or rejects with (~ok), and the table
\* and sequence after the statement
Answer(ok, rows, n, e, S, q) ==
    [ok |-> ok, rows |-> rows, rowCount |-> n, err |-> e, students |-> S, seq |-> q]

Failed(e, S, q) == Answer(FALSE, <<>>, 0, e, S, q)

\* the date input of the store: text to a date (ISO text), or the error code
DateIn(s) ==
    CASE s \in {"2024-01-15", "2024-1-15"} -> [ok |-> TRUE, v |-> "2024-01-15", code |-> ""]
      [] s = Null -> [ok |-> TRUE, v |-> Null, code |-> ""]
      [] s = "2024-02-30" -> [ok |-> FALSE, v |-> Null, code |-> "22008"]
      [] OTHER -> [ok |-> FALSE, v |-> Null, code |-> "22007"]

\* the integer input of the store applied to the text pg sends for a
\* JavaScript number (its toString): digits for an int4, digits out of the
\* int4 range, or text that is no integer ("1.5", "NaN")
Int4In(n) ==
    CASE n.k = "int" -> [ok |-> TRUE, v |-> n.v, code |-> ""]
      [] n.k = "big" -> [ok |-> FALSE, v |-> 0, code |-> "22003"]
      [] OTHER -> [ok |-> FALSE, v |-> 0, code |-> "22P02"]

Ids(S) == {r.student_id : r \in S}

\* ORDER BY student_id
RECURSIVE OrderById(_)
OrderById(S) ==
    IF S = {} THEN <<>>
    ELSE LET m == CHOOSE r \in S : \A o \in S : r.student_id <= o.student_id
         IN  <<m>> \o OrderById(S \ {m})

ExecSelect(S, q) == Answer(TRUE, OrderById(S), Cardinality(S), NoError, S, q)

\* mutant: the new id is one more than the largest id in the table
NextvalMaxPlusOne(S, q) ==
    IF S = {} THEN 1 ELSE 1 + CHOOSE m \in Ids(S) : \A o \in Ids(S) : o <= m

\* nextval of the student_id sequence
Nextval(S, q) == q + 1

\* mutant: the unique constraint on email is not checked
ExecInsertNoUnique(p, S, q) ==
    LET d == DateIn(p[4])
        new == Row(q + 1, p[1], p[2], p[3], d.v)
    IN  IF ~d.ok THEN Failed(StoreError(d.code), S, q)
        ELSE Answer(TRUE, <<new>>, 1, NoError, S \cup {new}, q + 1)

\* INSERT ... VALUES ($1, $2, $3, $4) RETURNING ...: the parameters are read
\* first; the sequence value is taken before the constraints are checked
ExecInsert(p, S, q) ==
    LET d == DateIn(p[4])
        new == Row(Nextval(S, q), p[1], p[2], p[3], d.v)
    IN  IF ~d.ok THEN Failed(StoreError(d.code), S, q)
        ELSE IF Null \in {p[1], p[2], p[3]}
             THEN Failed(StoreError("23502"), S, q + 1)
        ELSE IF \E r \in S : r.email = p[3]
             THEN Failed(StoreError("23505"), S, q + 1)
        ELSE Answer(TRUE, <<new>>, 1, NoError, S \cup {new}, q + 1)

\* UPDATE students SET <col> = $2 WHERE student_id = $1 RETURNING ...
ExecUpdate(col, p, S, q) ==
    LET i == Int4In(p[1])
        T == {r \in S : r.student_id = i.v}
        U == {[r EXCEPT ![col] = p[2]] : r \in T}
    IN  IF ~i.ok THEN Failed(StoreError(i.code), S, q)
        ELSE IF T = {} THEN Answer(TRUE, <<>>, 0, NoError, S, q)
        ELSE IF p[2] = Null THEN Failed(StoreError("23502"), S, q)
        ELSE IF col = "email" /\ \E r \in S \ T : r.email = p[2]
             THEN Failed(StoreError("23505"), S, q)
        ELSE Answer(TRUE, OrderById(U), Cardinality(U), NoError, (S \ T) \cup U, q)

\* DELETE FROM students WHERE student_id = $1
ExecDelete(p, S, q) ==
    LET i == Int4In(p[1])
        T == {r \in S : r.student_id = i.v}
    IN  IF ~i.ok THEN Failed(StoreError(i.code), S, q)
        ELSE Answer(TRUE, <<>>, Cardinality(T), NoError, S \ T, q)

Execute(query, S, q) ==
    CASE query.sql = "SELECT" -> ExecSelect(S, q)
      [] query.sql = "INSERT" -> ExecInsert(query.params, S, q)
      [] query.sql = "UPDATE" -> ExecUpdate(query.set, query.params, S, q)
      [] query.sql = "DELETE" -> ExecDelete(query.params, S, q)

-----------------------------------------------------------------------------
(* Data access layer: the query each function hands to pool.query, and    *)
(* what it returns from the answer                                         *)

NoQuery == [sql |-> "", set |-> "", params |-> <<>>]
Query(sql, set, params) == [sql |-> sql, set |-> set, params |-> params]

\* pg sends undefined as NULL
Param(x) == IF x = Undefined THEN Null ELSE x

getAllStudents == Query("SELECT", "", <<>>)
getAllStudentsReturn(r) == [t |-> "rows", rows |-> r.rows]

\* mutant: $2 and $3 bound in the wrong order
addStudentSwapped(first_name, last_name, email, enrollment_date) ==
    Query("INSERT", "",
          <<Param(first_name), Param(email), Param(last_name), Param(enrollment_date)>>)

addStudent(first_name, last_name, email, enrollment_date) ==
    Query("INSERT", "",
          <<Param(first_name), Param(last_name), Param(email), Param(enrollment_date)>>)
addStudentReturn(r) == [t |-> "row", row |-> r.rows[1]]

\* mutant: SET names the wrong column
updateStudentEmailWrongColumn(student_id, new_email) ==
    Query("UPDATE", "last_name", <<student_id, Param(new_email)>>)

updateStudentEmail(student_id, new_email) ==
    Query("UPDATE", "email", <<student_id, Param(new_email)>>)
\* mutant: rows[0] returned as it is, undefined when no row matched
updateStudentEmailReturnRaw(r) ==
    IF r.rows = <<>> THEN [t |-> "undefined"] ELSE [t |-> "row", row |-> r.rows[1]]

\* rows[0] ?? null
updateStudentEmailReturn(r) ==
    IF r.rows = <<>> THEN [t |-> "null"] ELSE [t |-> "row", row |-> r.rows[1]]

deleteStudent(student_id) == Query("DELETE", "", <<student_id>>)
deleteStudentReturn(r) == [t |-> "count", n |-> r.rowCount]

-----------------------------------------------------------------------------
(* Command dispatcher: runCLI *)

Commands == {"list", "add", "update", "delete"}

\* destructuring of args: a missing position is undefined
Arg(a, i) == IF i <= Len(a) THEN a[i] ELSE Undefined
\* !x for a string argument, and for the id argument (a character sequence)
Falsy(x) == x = Undefined \/ x = ""
FalsyId(a, i) == i > Len(a) \/ a[i] = <<>>
\* Number(idStr); Number(undefined) is NaN
NumberArg(a, i) == IF i > Len(a) THEN NaN ELSE StringToNumber(a[i])

UsageError(m) == [code |-> Undefined, message |-> m]
AddUsageMsg == "Usage: add \"<first>\" \"<last>\" \"<email>\" \"<YYYY-MM-DD>\""
UpdateUsageMsg == "Usage: update <student_id> \"<new_email>\""
DeleteUsageMsg == "Usage: delete <student_id>"
DuplicateMsg == "Error: duplicate email (violates UNIQUE constraint)."
InvalidMsg == "Error: invalid input syntax (check IDs and dates)."
NotFoundMsg == "No student found for id ="
UpdatedMsg == "Updated:"
InsertedMsg == "Inserted:"
DeletedMsg == "Deleted."
NotDeletedMsg == "No student deleted (not found)."
HelpMsg == "Commands:"
TableMsg == "console.table"

Msg(stream, text) == [stream |-> stream, text |-> text]

\* mutant: the four tests joined by && instead of ||
AddUsageAll(a) ==
    Falsy(Arg(a, 1)) /\ Falsy(Arg(a, 2)) /\ Falsy(Arg(a, 3)) /\ Falsy(Arg(a, 4))

\* if (!first || !last || !email || !date)
AddUsage(a) ==
    Falsy(Arg(a, 1)) \/ Falsy(Arg(a, 2)) \/ Falsy(Arg(a, 3)) \/ Falsy(Arg(a, 4))
\* if (!idStr || !newEmail)
UpdateUsage(a) == FalsyId(a, 1) \/ Falsy(Arg(a, 2))
\* if (!idStr)
DeleteUsage(a) == FalsyId(a, 1)

\* mutant: the two messages exchanged
ErrorMessageExchanged(e) ==
    IF e.code = "23505" THEN InvalidMsg
    ELSE IF e.code = "22P02" THEN DuplicateMsg
    ELSE e.message

\* mutant: the unique-violation code mistyped as the foreign-key one
ErrorMessageWrongCode(e) ==
    IF e.code = "23503" THEN DuplicateMsg
    ELSE IF e.code = "22P02" THEN InvalidMsg
    ELSE e.message

\* the catch block's choice of message
ErrorMessage(e) ==
    IF e.code = "23505" THEN DuplicateMsg
    ELSE IF e.code = "22P02" THEN InvalidMsg
    ELSE e.message

\* if (!row) ... else ...
UpdateOutput(r) == IF r.t \in {"null", "undefined"} THEN NotFoundMsg ELSE UpdatedMsg
\* mutant: the two branches exchanged
DeleteOutputInverted(r) == IF r.n = 1 THEN NotDeletedMsg ELSE DeletedMsg

\* count === 1 ? ... : ...
DeleteOutput(r) == IF r.n = 1 THEN DeletedMsg ELSE NotDeletedMsg

NoResult == [rows |-> <<>>, rowCount |-> 0]
NoReturn == [t |-> "none"]

AddArgs ==
    LET full == {<<f, l, e, d>> : f \in Firsts \cup {""}, l \in Lasts \cup {""},
                                  e \in Emails \cup {""}, d \in DateStrs \cup {""}}
    IN  {SubSeq(a, 1, n) : a \in full, n \in 0..4}
UpdateArgs ==
    {<<>>} \cup {<<i>> : i \in IdStrs} \cup {<<i, e>> : i \in IdStrs, e \in Emails \cup {""}}
DeleteArgs == {<<>>} \cup {<<i>> : i \in IdStrs}

ArgsOf(c) ==
    CASE c = "add" -> AddArgs
      [] c = "update" -> UpdateArgs
      [] c = "delete" -> DeleteArgs
      [] OTHER -> {<<>>}

\* the shell starts the process: the module creates the pool, runCLI reads argv
Start(c, a) ==
    /\ pc \in {"idle", "exited"}
    /\ c = "add" => seq < MaxSeq
    /\ pc' = "try"
    /\ cmd' = c
    /\ args' = a
    /\ inflight' = NoQuery
    /\ res' = NoResult
    /\ ret' = NoReturn
    /\ err' = NoError
    /\ out' = <<>>
    /\ ends' = 0
    /\ queries' = 0
    /\ before' = students
    /\ UNCHANGED <<students, seq, log, deletedIds>>

Throw(e) ==
    /\ err' = e
    /\ pc' = "catch"
    /\ UNCHANGED <<inflight, queries>>

PoolQuery(q) ==
    /\ inflight' = q
    /\ queries' = queries + 1
    /\ pc' = "await"
    /\ UNCHANGED err

RunList ==
    /\ pc = "try" /\ cmd = "list"
    /\ PoolQuery(getAllStudents)
    /\ UNCHANGED <<students, seq, log, deletedIds, cmd, args, res, ret, out, ends, before>>

RunAdd ==
    /\ pc = "try" /\ cmd = "add"
    /\ IF AddUsage(args)
       THEN Throw(UsageError(AddUsageMsg))
       ELSE PoolQuery(addStudent(Arg(args, 1), Arg(args, 2), Arg(args, 3), Arg(args, 4)))
    /\ UNCHANGED <<students, seq, log, deletedIds, cmd, args, res, ret, out, ends, before>>

RunUpdate ==
    /\ pc = "try" /\ cmd = "update"
    /\ IF UpdateUsage(args)
       THEN Throw(UsageError(UpdateUsageMsg))
       ELSE PoolQuery(updateStudentEmail(NumberArg(args, 1), Arg(args, 2)))
    /\ UNCHANGED <<students, seq, log, deletedIds, cmd, args, res, ret, out, ends, before>>

RunDelete ==
    /\ pc = "try" /\ cmd = "delete"
    /\ IF DeleteUsage(args)
       THEN Throw(UsageError(DeleteUsageMsg))
       ELSE PoolQuery(deleteStudent(NumberArg(args, 1)))
    /\ UNCHANGED <<students, seq, log, deletedIds, cmd, args, res, ret, out, ends, before>>

RunHelp ==
    /\ pc = "try" /\ cmd \notin Commands
    /\ out' = Append(out, Msg("stdout", HelpMsg))
    /\ pc' = "finally"
    /\ UNCHANGED <<students, seq, log, deletedIds, cmd, args, inflight, res, ret, err,
                   ends, queries, before>>

\* the store runs the query in flight and pool.query resolves or rejects
StoreAnswer ==
    /\ pc = "await"
    /\ LET a == Execute(inflight, students, seq)
       IN  /\ students' = a.students
           /\ seq' = a.seq
           /\ log' = IF a.ok /\ inflight.sql = "INSERT"
                     THEN Append(log, a.rows[1].student_id) ELSE log
           /\ deletedIds' = IF inflight.sql = "DELETE"
                            THEN deletedIds \cup (Ids(students) \ Ids(a.students))
                            ELSE deletedIds
           /\ IF a.ok
              THEN /\ res' = [rows |-> a.rows, rowCount |-> a.rowCount]
                   /\ pc' = "resume"
                   /\ UNCHANGED err
              ELSE /\ err' = a.err
                   /\ pc' = "catch"
                   /\ UNCHANGED res
    /\ inflight' = NoQuery
    /\ UNCHANGED <<cmd, args, ret, out, ends, queries, before>>

Resume(r, text) ==
    /\ ret' = r
    /\ out' = Append(out, Msg("stdout", text))
    /\ pc' = "finally"
    /\ UNCHANGED <<students, seq, log, deletedIds, cmd, args, inflight, res, err,
                   ends, queries, before>>

ResumeList ==
    /\ pc = "resume" /\ cmd = "list"
    /\ Resume(getAllStudentsReturn(res), TableMsg)

ResumeAdd ==
    /\ pc = "resume" /\ cmd = "add"
    /\ Resume(addStudentReturn(res), InsertedMsg)

ResumeUpdate ==
    /\ pc = "resume" /\ cmd = "update"
    /\ Resume(updateStudentEmailReturn(res), UpdateOutput(updateStudentEmailReturn(res)))

ResumeDelete ==
    /\ pc = "resume" /\ cmd = "delete"
    /\ Resume(deleteStudentReturn(res), DeleteOutput(deleteStudentReturn(res)))

\* mutant: the pool is ended at the end of the try block only, so a caught
\* failure leaves without ending it
CatchNoRelease ==
    /\ pc = "catch"
    /\ out' = Append(out, Msg("stderr", ErrorMessage(err)))
    /\ pc' = "exited"
    /\ UNCHANGED <<students, seq, log, deletedIds, cmd, args, inflight, res, ret, err,
                   ends, queries, before>>

Catch ==
    /\ pc = "catch"
    /\ out' = Append(out, Msg("stderr", ErrorMessage(err)))
    /\ pc' = "finally"
    /\ UNCHANGED <<students, seq, log, deletedIds, cmd, args, inflight, res, ret, err,
                   ends, queries, before>>

\* finally { await pool.end(); }
Finally ==
    /\ pc = "finally"
    /\ ends' = ends + 1
    /\ pc' = "exited"
    /\ UNCHANGED <<students, seq, log, deletedIds, cmd, args, inflight, res, ret, err,
                   out, queries, before>>

Init ==
    /\ students = {}
    /\ seq = 0
    /\ log = <<>>
    /\ deletedIds = {}
    /\ pc = "idle"
    /\ cmd = Undefined
    /\ args = <<>>
    /\ inflight = NoQuery
    /\ res = NoResult
    /\ ret = NoReturn
    /\ err = NoError
    /\ out = <<>>
    /\ ends = 0
    /\ queries = 0
    /\ before = {}

StartAny == \E c \in Commands \cup {Undefined, "bogus"} : \E a \in ArgsOf(c) : Start(c, a)

Next ==
    \/ StartAny
    \/ RunList
    \/ RunAdd
    \/ RunUpdate
    \/ RunDelete
    \/ RunHelp
    \/ StoreAnswer
    \/ ResumeList
    \/ ResumeAdd
    \/ ResumeUpdate
    \/ ResumeDelete
    \/ Catch
    \/ Finally

Spec == Init /\ [][Next]_vars

-----------------------------------------------------------------------------
(* Properties *)

Done == pc = "exited"
Printed == pc \in {"finally", "exited"}

\* what the claims call a missing or empty positional argument
Missing(a, i) == i > Len(a) \/ a[i] = ""
MissingId(a) == Len(a) = 0 \/ a[1] = <<>>
AddRan == cmd = "add" /\ \A i \in 1..4 : ~Missing(args, i)
UpdateRan == cmd = "update" /\ ~MissingId(args) /\ ~Missing(args, 2)
DeleteRan == cmd = "delete" /\ ~MissingId(args)
\* the id argument as the integer the store reads, when it is one
IdInt == StringToNumber(args[1])
IdIsInt4 == IdInt.k = "int"

OnlyError(text) == out = <<Msg("stderr", text)>>
OnlyOutput(text) == out = <<Msg("stdout", text)>>

\* C1: an add (with a date the store accepts) whose email is already held by
\* a record, and an update of an existing record to an email held by a
\* different record, both fail with code 23505, print the duplicate-email
\* message, and leave the table as it was.
AddDuplicate ==
    AddRan /\ DateIn(args[4]).ok /\ \E r \in before : r.email = args[3]
UpdateDuplicate ==
    /\ UpdateRan /\ IdIsInt4
    /\ \E r \in before : r.student_id = IdInt.v
    /\ \E o \in before : o.student_id # IdInt.v /\ o.email = args[2]
C1_WitnessUpdate == Done /\ UpdateDuplicate /\ err.code = "23505"

\* C2: in every reachable state no two stored students have the same email.
C2_EmailsUnique ==
    \A r1 \in students : \A r2 \in students : r1.email = r2.email => r1 = r2
C2_Witness ==
    /\ Done /\ err.code = "23505" /\ Cardinality(students) >= 2
    /\ deletedIds # {}

\* C3: the ids given to inserted rows are strictly increasing over the whole
\* history (so none is reused, also after deletes), a successful add returns
\* the row with the id just assigned, and that row, with the fields given,
\* is in the table listed by getAllStudents.
C3_IdsIncrease ==
    /\ \A i \in 1..Len(log) : \A j \in 1..Len(log) : i < j => log[i] < log[j]
    /\ (Printed /\ cmd = "add" /\ ret.t = "row") =>
          /\ ret.row.student_id = log[Len(log)]
          /\ ret.row = Row(log[Len(log)], args[1], args[2], args[3], DateIn(args[4]).v)
          /\ \E i \in 1..Len(OrderById(students)) : OrderById(students)[i] = ret.row
          /\ Ids(before) \cup deletedIds \subseteq 1..(ret.row.student_id - 1)
C3_Witness ==
    /\ Done /\ cmd = "add" /\ ret.t = "row"
    /\ ret.row.student_id \notin deletedIds
    /\ \E d \in deletedIds : d > Cardinality(students)
    /\ Len(log) >= 2

\* C4: an update whose id (an integer of the id column's type) matches no
\* stored record returns null, raises nothing, leaves the table as it was and
\* prints the not-found notice, whatever the email, also one another record
\* holds.
UpdateNoMatch == UpdateRan /\ IdIsInt4 /\ IdInt.v \notin Ids(before)
C4_UpdateMissingIsNull ==
    (Done /\ UpdateNoMatch) =>
        /\ ret = [t |-> "null"]
        /\ err = NoError
        /\ students = before
        /\ OnlyOutput(NotFoundMsg)
C4_Witness ==
    /\ Done /\ UpdateNoMatch /\ ret.t = "null"
    /\ \E r \in before : r.email = args[2]

\* C5: a delete by an id of the id column's type returns 1 when a record has
\* that id and 0 otherwise, never raises; after 1 exactly that record is gone
\* and the others are unchanged, after 0 the table is unchanged; "Deleted."
\* is printed iff the count is 1, the not-found notice otherwise; no listing
\* ever shows a deleted id again.
DeleteInt == DeleteRan /\ IdIsInt4
C5_DeleteCount ==
    /\ (Done /\ DeleteInt) =>
          /\ err = NoError
          /\ ret.t = "count"
          /\ ret.n = (IF IdInt.v \in Ids(before) THEN 1 ELSE 0)
          /\ students = {r \in before : r.student_id # IdInt.v}
          /\ OnlyOutput(IF ret.n = 1 THEN DeletedMsg ELSE NotDeletedMsg)
    /\ Ids(students) \cap deletedIds = {}
    /\ (Printed /\ cmd = "list") =>
          \A i \in 1..Len(ret.rows) : ret.rows[i].student_id \notin deletedIds
C5_Witness ==
    /\ Done /\ DeleteInt /\ ret.t = "count" /\ ret.n = 1
    /\ Cardinality(students) >= 1
C5_WitnessZero == Done /\ DeleteInt /\ ret.t = "count" /\ ret.n = 0 /\ students # {}
C5_WitnessList == Done /\ cmd = "list" /\ deletedIds # {} /\ Len(ret.rows) >= 2

\* C6: when add, update or delete is invoked with a required argument missing
\* or empty, the usage error is raised and printed, no query is issued in the
\* invocation, and the table stays as it was at process start.
UsageCase ==
    \/ cmd = "add" /\ \E i \in 1..4 : Missing(args, i)
    \/ cmd = "update" /\ (MissingId(args) \/ Missing(args, 2))
    \/ cmd = "delete" /\ MissingId(args)
UsageText ==
    CASE cmd = "add" -> AddUsageMsg
      [] cmd = "update" -> UpdateUsageMsg
      [] cmd = "delete" -> DeleteUsageMsg
      [] OTHER -> ""
C6_UsageBeforeStore ==
    (pc \notin {"idle", "try"} /\ UsageCase) =>
        /\ queries = 0
        /\ inflight = NoQuery
        /\ students = before
        /\ err = UsageError(UsageText)
        /\ Printed => OnlyError(UsageText)
C6_Witness ==
    /\ Done /\ cmd = "add" /\ Len(args) = 4 /\ args[4] = ""
    /\ students # {} /\ queries = 0

\* C7: in every run the pool is ended exactly once: never twice, once the
\* run has exited, and only after the query (if any) was answered and the one
\* result or error message was printed; every run can go on to its end.
ProcessStep ==
    \/ RunList \/ RunAdd \/ RunUpdate \/ RunDelete \/ RunHelp \/ StoreAnswer
    \/ ResumeList \/ ResumeAdd \/ ResumeUpdate \/ ResumeDelete \/ Catch \/ Finally
C7_PoolEndedOnce ==
    /\ ends \in {0, 1}
    /\ queries \in {0, 1}
    /\ Done <=> (ends = 1)
    /\ ends = 1 => (inflight = NoQuery /\ Len(out) = 1)
    /\ pc \in {"try", "await", "resume", "catch"} => (ends = 0 /\ Len(out) = 0)
    /\ pc \in {"try", "await", "resume", "catch", "finally"} => ENABLED ProcessStep
C7_Witness == Done /\ ends = 1 /\ queries = 1 /\ err.code = "22003"

\* C8: every failure is caught and yields exactly one message, on stderr: the
\* duplicate-email message iff its code is 23505, the invalid-input message
\* iff its code is 22P02, its raw message otherwise (usage errors carry no
\* code); a run without failure prints nothing on stderr.
C8_OneMessagePerFailure ==
    /\ err # NoError => pc \in {"catch", "finally", "exited"}
    /\ (Printed /\ err # NoError) =>
          /\ Len(out) = 1
          /\ out[1].stream = "stderr"
          /\ (out[1].text = DuplicateMsg) <=> (err.code = "23505")
          /\ (out[1].text = InvalidMsg) <=> (err.code = "22P02")
          /\ err.code \notin {"23505", "22P02"} => out[1].text = err.message
    /\ (Printed /\ err = NoError) =>
          \A i \in 1..Len(out) : out[i].stream = "stdout"
C8_Witness == Done /\ queries = 1 /\ err.code \in {"22007", "22008"}
C8_WitnessDuplicate == Done /\ err.code = "23505"
C8_WitnessInvalid == Done /\ err.code = "22P02"
C8_WitnessUsage == Done /\ err.code = Undefined

\* C9 (as claimed): for update and delete, every non-empty id argument that
\* is not a numeric id ends with the invalid-input message and never with a
\* result or not-found notice, and changes no record.  "Not numeric" is read
\* as narrowly as possible: a character that cannot occur in a number, or no
\* digit at all.
NotNumeric(s) ==
    \/ \E i \in 1..Len(s) : s[i] \notin DigitChars \cup {" ", ".", "+", "-"}
    \/ \A i \in 1..Len(s) : s[i] \notin DigitChars
C9_NonNumericIdIsInvalidInput ==
    (Done /\ (UpdateRan \/ DeleteRan) /\ NotNumeric(args[1])) =>
        /\ OnlyError(InvalidMsg)
        /\ students = before

\* C10: a successful update changes only the email of the record with the
\* given id: its other fields, every other record and the number of records
\* are unchanged, and the returned record is the stored one.
C10_UpdateFrame ==
    (Done /\ cmd = "update" /\ ret.t = "row") =>
        \E old \in before :
            /\ old.student_id = IdInt.v
            /\ ret.row = [old EXCEPT !.email = args[2]]
            /\ students = (before \ {old}) \cup {ret.row}
            /\ Cardinality(students) = Cardinality(before)
C10_Witness ==
    /\ Done /\ cmd = "update" /\ ret.t = "row"
    /\ Cardinality(students) >= 2
    /\ ret.row \notin before

====
